---------------------------- MODULE Spec2Model ----------------------------
(***************************************************************************)
(* A model of the PDF-to-PNG conversion service of src/main.py: the        *)
(* POST /convert-pdf handler (convert_pdf) with its fetch stage            *)
(* (download_pdf), its render stage (convert_pdf_to_images) and the ZIP    *)
(* packaging, run by concurrent requests on one asyncio event loop.        *)
(*                                                                         *)
(* A coroutine gives the event loop back only where it awaits I/O          *)
(* (session.get, response.read).  Everything between two such points runs  *)
(* on the loop's thread; `loop` names the request that holds it.           *)
(***************************************************************************)
EXTENDS Integers, Sequences, FiniteSets, TLC

(***************************************************************************)
(* Bounds of the model                                                     *)
(***************************************************************************)
\* number of requests in flight at once
MaxRequests == 2
\* the small documents have 0..MaxSmallPages pages
MaxSmallPages == 3

(***************************************************************************)
(* Program constants                                                       *)
(***************************************************************************)
MAX_PDF_SIZE == 100 * 1024 * 1024
MAX_PAGE_COUNT == 5000
DPI == 71

Requests == 1..MaxRequests
None == "None"
\* the event loop's thread runs no request: it waits for I/O
Idle == 0

(***************************************************************************)
(* Text: a string whose characters the code inspects is a sequence of      *)
(* one-character strings.                                                  *)
(***************************************************************************)
UpperCase ==
  << "A","B","C","D","E","F","G","H","I","J","K","L","M",
     "N","O","P","Q","R","S","T","U","V","W","X","Y","Z" >>
LowerCase ==
  << "a","b","c","d","e","f","g","h","i","j","k","l","m",
     "n","o","p","q","r","s","t","u","v","w","x","y","z" >>

\* str.lower() on one character
LowerChar(c) ==
  IF \E i \in DOMAIN UpperCase : UpperCase[i] = c
  THEN LowerCase[CHOOSE i \in DOMAIN UpperCase : UpperCase[i] = c]
  ELSE c

\* str.lower()
Lower(s) == [i \in DOMAIN s |-> LowerChar(s[i])]

\* sub in s
Contains(sub, s) ==
  \E i \in 1..(Len(s) - Len(sub) + 1) : SubSeq(s, i, i + Len(sub) - 1) = sub

Digits == << "0","1","2","3","4","5","6","7","8","9" >>

\* str(n) for n >= 0, as an f-string formats an int
RECURSIVE IntToStr(_)
IntToStr(n) ==
  IF n < 10 THEN << Digits[n + 1] >>
  ELSE IntToStr(n \div 10) \o << Digits[(n % 10) + 1] >>

(***************************************************************************)
(* What the remote server can answer                                       *)
(***************************************************************************)
Statuses == {200, 404, 503}

CT_pdf == << "a","p","p","l","i","c","a","t","i","o","n","/","p","d","f" >>
CT_PDF == << "A","p","p","l","i","c","a","t","i","o","n","/","P","D","F" >>
CT_html == << "t","e","x","t","/","h","t","m","l" >>
\* no Content-Type header: headers.get('Content-Type', '') gives ''
CT_none == << >>
ContentTypes == {CT_pdf, CT_PDF, CT_html, CT_none}

\* a PDF document as the rendering engine sees it
Doc(n) == [pages |-> n]
\* a response body: its length in bytes and the document it encodes
Body(n, d) == [len |-> n, doc |-> d]

BodyLens == {MAX_PDF_SIZE - 1, MAX_PDF_SIZE, MAX_PDF_SIZE + 1}
PageCounts == (0..MaxSmallPages) \cup {MAX_PAGE_COUNT + 1}
BoundaryPageCounts == {0, 2, 11, MAX_PAGE_COUNT, MAX_PAGE_COUNT + 1}
Bodies == {Body(n, Doc(p)) : n \in BodyLens, p \in PageCounts}
BoundaryBodies == {Body(n, Doc(p)) : n \in BodyLens, p \in BoundaryPageCounts}

\* exceptions the HTTP client raises on a transport-level fault
\*   ClientConnectorError  DNS failure, connection refused
\*   ClientSSLError        TLS failure
\*   ClientOSError         connection reset
\*   ServerTimeoutError    socket read/connect timeout
\*   TimeoutError          the session's total timeout (asyncio.TimeoutError)
ClientErrorTypes ==
  {"ClientConnectorError", "ClientSSLError", "ClientOSError", "ServerTimeoutError"}
TransportFaults == ClientErrorTypes \cup {"TimeoutError"}

(***************************************************************************)
(* Exceptions and responses                                                *)
(***************************************************************************)
\* a detail string: the f-string's literal text and the values it formats
Detail(msg, ints, strs) == [msg |-> msg, ints |-> ints, strs |-> strs]
NoDetail == Detail("", << >>, << >>)

\* an exception: its class, and for HTTPException its status_code and detail;
\* stage is the stage of the pipeline that raised it
Exc(type, status_code, detail, stage) ==
  [type |-> type, status_code |-> status_code, detail |-> detail, stage |-> stage]
HTTPException(status_code, detail, stage) ==
  Exc("HTTPException", status_code, detail, stage)
NoExc == Exc(None, 0, NoDetail, None)

\* isinstance(e, aiohttp.ClientError)
IsClientError(e) == e.type \in ClientErrorTypes

NoBuffer == [entries |-> << >>, pos |-> -1]

\* what the caller of POST /convert-pdf receives for a raised HTTPException
ErrorResponse(e) ==
  [status |-> e.status_code, detail |-> e.detail,
   media_type |-> "application/json", body |-> NoBuffer]
\* StreamingResponse(zip_buffer, media_type="application/zip", ...)
StreamingResponse(buf) ==
  [status |-> 200, detail |-> NoDetail,
   media_type |-> "application/zip", body |-> buf]
NoResponse ==
  [status |-> 0, detail |-> NoDetail, media_type |-> None, body |-> NoBuffer]

(***************************************************************************)
(* download_pdf's checks and handlers                                      *)
(***************************************************************************)
BadStatus(status) == status # 200

StatusError(status) ==
  HTTPException(400,
    Detail("Failed to download PDF. Status code: {response.status}",
           << status >>, << >>), "fetch")

NotPdf(content_type) == ~ Contains(<< "p","d","f" >>, Lower(content_type))

ContentTypeError(content_type) ==
  HTTPException(400,
    Detail("URL does not point to a PDF file. Content-Type: {content_type}",
           << >>, << content_type >>), "fetch")

TooLarge(pdf_bytes_) == pdf_bytes_.len > MAX_PDF_SIZE

TooLargeError ==
  HTTPException(400, Detail("PDF file is too large.", << >>, << >>), "fetch")

\* the except clauses of download_pdf: HTTPException is an Exception and no
\* aiohttp.ClientError, so the second clause catches the function's own raises
DownloadExcept(e) ==
  IF IsClientError(e)
  THEN HTTPException(400,
         Detail("Client error occurred while downloading PDF.", << >>, << >>),
         "fetch")
  ELSE HTTPException(500,
         Detail("Unexpected error occurred.", << >>, << >>), "fetch")

(***************************************************************************)
(* convert_pdf_to_images' checks and handlers                              *)
(***************************************************************************)
\* mutant: the limit compared one too high
TooManyPagesOffByOne(n) == n > MAX_PAGE_COUNT + 1

TooManyPages(n) == n > MAX_PAGE_COUNT

TooManyPagesError(n) ==
  HTTPException(400,
    Detail("PDF has too many pages ({page_count}). Maximum allowed is {MAX_PAGE_COUNT}.",
           << n, MAX_PAGE_COUNT >>, << >>), "render")

Min(a, b) == IF a < b THEN a ELSE b

\* range(min(page_count, MAX_PAGE_COUNT)) has ended at index i
RangeDone(i, n) == i >= Min(n, MAX_PAGE_COUNT)

\* page.get_pixmap(dpi=DPI).tobytes("png") of page index i of document d
Png(d, i, dpi) == [png |-> d, index |-> i, dpi |-> dpi]

\* mutant: the entry carries the zero-based loop index
PageEntryZeroBased(i, image_bytes) == << i, image_bytes >>

\* the entry appended for page index i
PageEntry(i, image_bytes) == << i + 1, image_bytes >>

\* the engine's fault while opening, loading or rasterizing
EngineError == Exc("RuntimeError", 0, NoDetail, "render")

\* the except clause of convert_pdf_to_images
ConvertExcept(e) ==
  HTTPException(500,
    Detail("Error converting PDF to images.", << >>, << >>), "render")

(***************************************************************************)
(* convert_pdf's packaging                                                 *)
(***************************************************************************)
\* mutant: the empty check left out
NoImagesUnchecked(list) == FALSE

\* not image_bytes_list
NoImages(list) == list = << >>

NoImagesError ==
  HTTPException(500, Detail("No images were generated.", << >>, << >>), "package")

\* mutant: the file named by the zero-based page index
PageNameZeroBased(n) ==
  << "p","a","g","e","_" >> \o IntToStr(n - 1) \o << ".","p","n","g" >>

\* f'page_{page_num}.png'
PageName(n) ==
  << "p","a","g","e","_" >> \o IntToStr(n) \o << ".","p","n","g" >>

\* ZIP_DEFLATED: an entry stores the deflated bytes; reading inflates them
Deflate(bytes) == [deflated |-> bytes]
Inflate(data) == data.deflated

\* zip_file.writestr(name, image_bytes) for each pair of the list, in order;
\* the buffer's position is then past the archive's last byte
ZipWrite(list) ==
  [entries |-> [k \in DOMAIN list |->
                  [name |-> PageName(list[k][1]), data |-> Deflate(list[k][2])]],
   pos |-> Len(list) + 1]

\* zip_buffer.seek(0)
Seek0(buf) == [buf EXCEPT !.pos = 0]

(***************************************************************************)
(* State                                                                   *)
(***************************************************************************)
VARIABLES
  pc,                \* where each request's coroutine stands
  loop,              \* the request running on the event loop's thread, or Idle
  pdf_bytes,         \* convert_pdf's pdf_bytes
  page_count,        \* convert_pdf_to_images' page_count
  page_num,          \* the loop index of convert_pdf_to_images
  image_bytes_list,  \* the list convert_pdf_to_images builds and returns
  resp,              \* what the caller of the request has received
  served,            \* the body the remote server sent for the request
  raised,            \* the exception first raised in the request
  calls              \* calls made for the request: fitz.open, get_pixmap, ZipFile

vars ==
  << pc, loop, pdf_bytes, page_count, page_num, image_bytes_list,
     resp, served, raised, calls >>

NoBody == Body(-1, Doc(-1))
NoCalls == [open |-> 0, raster |-> 0, zip |-> 0]

Init ==
  /\ pc = [r \in Requests |-> "idle"]
  /\ loop = Idle
  /\ pdf_bytes = [r \in Requests |-> NoBody]
  /\ page_count = [r \in Requests |-> -1]
  /\ page_num = [r \in Requests |-> -1]
  /\ image_bytes_list = [r \in Requests |-> << >>]
  /\ resp = [r \in Requests |-> NoResponse]
  /\ served = [r \in Requests |-> NoBody]
  /\ raised = [r \in Requests |-> NoExc]
  /\ calls = [r \in Requests |-> NoCalls]

\* the request ends: the response goes to the caller, the frames are dropped,
\* the thread goes back to the event loop
Finish(r, response) ==
  /\ pc' = [pc EXCEPT ![r] = "done"]
  /\ resp' = [resp EXCEPT ![r] = response]
  /\ loop' = Idle
  /\ pdf_bytes' = [pdf_bytes EXCEPT ![r] = NoBody]
  /\ page_count' = [page_count EXCEPT ![r] = -1]
  /\ page_num' = [page_num EXCEPT ![r] = -1]
  /\ image_bytes_list' = [image_bytes_list EXCEPT ![r] = << >>]

\* raise e inside download_pdf's try
FailDownload(r, e) ==
  /\ raised' = [raised EXCEPT ![r] = e]
  /\ Finish(r, ErrorResponse(DownloadExcept(e)))

\* raise e inside convert_pdf_to_images' try
FailConvert(r, e) ==
  /\ raised' = [raised EXCEPT ![r] = e]
  /\ Finish(r, ErrorResponse(ConvertExcept(e)))

\* POST /convert-pdf arrives: convert_pdf calls download_pdf, which opens the
\* session and awaits session.get
Receive(r) ==
  /\ loop = Idle
  /\ pc[r] = "idle"
  /\ pc' = [pc EXCEPT ![r] = "get"]
  /\ UNCHANGED << loop, pdf_bytes, page_count, page_num, image_bytes_list,
                  resp, served, raised, calls >>

\* session.get fails with a transport-level fault
GetFault(r) ==
  /\ loop = Idle
  /\ pc[r] = "get"
  /\ \E t \in TransportFaults : FailDownload(r, Exc(t, 0, NoDetail, "fetch"))
  /\ UNCHANGED << served, calls >>

\* the response's status line and headers arrive: the status and
\* Content-Type checks, then await response.read()
GetResponse(r) ==
  /\ loop = Idle
  /\ pc[r] = "get"
  /\ \E status \in Statuses, content_type \in ContentTypes :
       IF BadStatus(status) THEN
         FailDownload(r, StatusError(status))
       ELSE IF NotPdf(content_type) THEN
         FailDownload(r, ContentTypeError(content_type))
       ELSE
         /\ pc' = [pc EXCEPT ![r] = "read"]
         /\ UNCHANGED << loop, pdf_bytes, page_count, page_num,
                         image_bytes_list, resp, raised >>
  /\ UNCHANGED << served, calls >>

\* response.read() fails with a transport-level fault
ReadFault(r) ==
  /\ loop = Idle
  /\ pc[r] = "read"
  /\ \E t \in TransportFaults : FailDownload(r, Exc(t, 0, NoDetail, "fetch"))
  /\ UNCHANGED << served, calls >>

\* response.read() returns the body: the size check; download_pdf returns and
\* convert_pdf goes on into convert_pdf_to_images without leaving the thread
ReadBody(r, bodies) ==
  /\ loop = Idle
  /\ pc[r] = "read"
  /\ \E b \in bodies :
       /\ served' = [served EXCEPT ![r] = b]
       /\ IF TooLarge(b) THEN
            FailDownload(r, TooLargeError)
          ELSE
            /\ pc' = [pc EXCEPT ![r] = "open"]
            /\ pdf_bytes' = [pdf_bytes EXCEPT ![r] = b]
            /\ loop' = r
            /\ UNCHANGED << page_count, page_num, image_bytes_list, resp, raised >>
  /\ UNCHANGED calls

\* fitz.open, doc.page_count and the page-count check
OpenDoc(r) ==
  /\ loop = r
  /\ pc[r] = "open"
  /\ calls' = [calls EXCEPT ![r].open = @ + 1]
  /\ \E parsed \in BOOLEAN :
       IF ~ parsed THEN
         FailConvert(r, EngineError)
       ELSE IF TooManyPages(pdf_bytes[r].doc.pages) THEN
         FailConvert(r, TooManyPagesError(pdf_bytes[r].doc.pages))
       ELSE
         /\ pc' = [pc EXCEPT ![r] = "render"]
         /\ page_count' = [page_count EXCEPT ![r] = pdf_bytes[r].doc.pages]
         /\ page_num' = [page_num EXCEPT ![r] = 0]
         /\ image_bytes_list' = [image_bytes_list EXCEPT ![r] = << >>]
         /\ UNCHANGED << loop, pdf_bytes, resp, raised >>
  /\ UNCHANGED served

\* mutant: a page's fault ends the loop and the pages rendered so far are
\* returned
RenderPageKeepPartial(r) ==
  /\ loop = r
  /\ pc[r] = "render"
  /\ ~ RangeDone(page_num[r], page_count[r])
  /\ calls' = [calls EXCEPT ![r].raster = @ + 1]
  /\ \E rasterized \in BOOLEAN :
       IF ~ rasterized THEN
         /\ raised' = [raised EXCEPT ![r] = EngineError]
         /\ pc' = [pc EXCEPT ![r] = "package"]
         /\ UNCHANGED << loop, pdf_bytes, page_count, page_num,
                         image_bytes_list, resp >>
       ELSE
         /\ image_bytes_list' =
              [image_bytes_list EXCEPT ![r] =
                 Append(@, PageEntry(page_num[r],
                                     Png(pdf_bytes[r].doc, page_num[r], DPI)))]
         /\ page_num' = [page_num EXCEPT ![r] = @ + 1]
         /\ UNCHANGED << pc, loop, pdf_bytes, page_count, resp, raised >>
  /\ UNCHANGED served

\* one iteration of the page loop: load_page, get_pixmap, tobytes, append
RenderPage(r) ==
  /\ loop = r
  /\ pc[r] = "render"
  /\ ~ RangeDone(page_num[r], page_count[r])
  /\ calls' = [calls EXCEPT ![r].raster = @ + 1]
  /\ \E rasterized \in BOOLEAN :
       IF ~ rasterized THEN
         FailConvert(r, EngineError)
       ELSE
         /\ image_bytes_list' =
              [image_bytes_list EXCEPT ![r] =
                 Append(@, PageEntry(page_num[r],
                                     Png(pdf_bytes[r].doc, page_num[r], DPI)))]
         /\ page_num' = [page_num EXCEPT ![r] = @ + 1]
         /\ UNCHANGED << pc, loop, pdf_bytes, page_count, resp, raised >>
  /\ UNCHANGED served

\* the page loop ends: the document is closed and the list returned
RenderReturn(r) ==
  /\ loop = r
  /\ pc[r] = "render"
  /\ RangeDone(page_num[r], page_count[r])
  /\ pc' = [pc EXCEPT ![r] = "package"]
  /\ UNCHANGED << loop, pdf_bytes, page_count, page_num, image_bytes_list,
                  resp, served, raised, calls >>

\* convert_pdf after the render: the empty check, the ZIP, the response
Package(r) ==
  /\ loop = r
  /\ pc[r] = "package"
  /\ IF NoImages(image_bytes_list[r]) THEN
       /\ raised' = [raised EXCEPT ![r] = NoImagesError]
       /\ Finish(r, ErrorResponse(NoImagesError))
       /\ UNCHANGED calls
     ELSE
       /\ calls' = [calls EXCEPT ![r].zip = @ + 1]
       /\ Finish(r, StreamingResponse(Seek0(ZipWrite(image_bytes_list[r]))))
       /\ UNCHANGED raised
  /\ UNCHANGED served

Step(r, bodies) ==
  \/ Receive(r)
  \/ GetFault(r)
  \/ GetResponse(r)
  \/ ReadFault(r)
  \/ ReadBody(r, bodies)
  \/ OpenDoc(r)
  \/ RenderPage(r)
  \/ RenderReturn(r)
  \/ Package(r)

\* concurrent requests for small documents and for documents over the limits
Next == \E r \in Requests : Step(r, Bodies)

Spec == Init /\ [][Next]_vars

\* one request, for documents at the page limit
NextBoundary == Step(1, BoundaryBodies)

SpecBoundary == Init /\ [][NextBoundary]_vars

(***************************************************************************)
(* Properties                                                              *)
(***************************************************************************)
Done(r) == pc[r] = "done"
Range(f) == {f[i] : i \in DOMAIN f}

\* the decimal numeral s read as a number
RECURSIVE StrToInt(_)
StrToInt(s) ==
  IF s = << >> THEN 0
  ELSE 10 * StrToInt(SubSeq(s, 1, Len(s) - 1))
       + (CHOOSE d \in 0..9 : Digits[d + 1] = s[Len(s)])

\* name is page_<n>.png with n written in decimal without leading zeros
NamesPage(name, n) ==
  /\ Len(name) >= 10
  /\ SubSeq(name, 1, 5) = << "p","a","g","e","_" >>
  /\ SubSeq(name, Len(name) - 3, Len(name)) = << ".","p","n","g" >>
  /\ LET digits == SubSeq(name, 6, Len(name) - 4)
     IN  /\ \A i \in DOMAIN digits : digits[i] \in Range(Digits)
         /\ digits[1] # "0" \/ Len(digits) = 1
         /\ StrToInt(digits) = n

\* C1: when the engine opens a document of N pages, 1 <= N <= 5000, and no
\* page faults, convert_pdf_to_images returns exactly N entries whose page
\* numbers are 1, 2, ..., N in that order.
C1_PagesInOrder ==
  \A r \in Requests :
    (pc[r] = "package" /\ 1 <= page_count[r] /\ page_count[r] <= 5000) =>
      /\ page_count[r] = served[r].doc.pages
      /\ Len(image_bytes_list[r]) = page_count[r]
      /\ \A k \in 1..page_count[r] : image_bytes_list[r][k][1] = k

C1_Witness ==
  \E r \in Requests :
    /\ pc[r] = "package"
    /\ page_count[r] = 11
    /\ Len(image_bytes_list[r]) = 11

\* C2: a document of more than 5000 pages makes the request fail, and no page
\* of it is ever loaded or rasterized.
C2_NoRasterOverLimit ==
  \A r \in Requests :
    served[r].doc.pages > 5000 =>
      /\ calls[r].raster = 0
      /\ pc[r] \notin {"render", "package"}
      /\ Done(r) => (resp[r].status >= 400 /\ resp[r].body = NoBuffer)

C2_Witness ==
  \E r \in Requests :
    /\ Done(r)
    /\ served[r].doc.pages > 5000
    /\ calls[r].open = 1
    /\ raised[r].stage = "render"

\* C3: a fetched body longer than 100 MiB makes the pipeline fail with the
\* payload-too-large error without entering the render stage; a body of
\* 100 MiB or less is not rejected for its size.
C3_OversizeIsPayloadTooLarge ==
  \A r \in Requests :
    (Done(r) /\ served[r] # NoBody) =>
      IF served[r].len > 100 * 1024 * 1024
      THEN /\ resp[r].detail.msg = "PDF file is too large."
           /\ calls[r].open = 0
      ELSE raised[r] # TooLargeError

\* C4: when the remote server answers with a status other than 200, the
\* caller receives HTTP 400 whose detail mentions that status code.
C4_BadStatusIs400 ==
  \A r \in Requests : \A s \in Statuses \ {200} :
    (Done(r) /\ raised[r] = StatusError(s)) =>
      /\ resp[r].status = 400
      /\ s \in Range(resp[r].detail.ints)

\* the rejections for a condition the caller caused
CallerCaused(e) ==
  \/ \E ct \in ContentTypes : e = ContentTypeError(ct)
  \/ e = TooLargeError
  \/ e.detail.msg = TooManyPagesError(0).detail.msg

\* C5: a rejection for a non-PDF content type, an oversized body or too many
\* pages reaches the caller with a 4xx status and a detail naming the
\* condition, never with a 5xx status.
C5_CallerCausedIs4xx ==
  \A r \in Requests :
    (Done(r) /\ CallerCaused(raised[r])) =>
      /\ resp[r].status \in 400..499
      /\ resp[r].detail = raised[r].detail

\* C6: the stages run in the order fetch, render, package, and after a stage
\* fails no later stage runs: a fetch failure means the document is never
\* opened; a render failure, also on page k after pages 1..k-1 were
\* rendered, means no ZIP is built and no rendered page is returned.
C6_StagesShortCircuit ==
  \A r \in Requests :
    /\ pc[r] \in {"idle", "get", "read"} => calls[r] = NoCalls
    /\ calls[r].open > 0 => (served[r] # NoBody /\ raised[r].stage # "fetch")
    /\ calls[r].raster > 0 => calls[r].open = 1
    /\ calls[r].zip > 0 =>
         /\ raised[r] = NoExc
         /\ calls[r].open = 1
         /\ calls[r].raster = served[r].doc.pages
    /\ raised[r] # NoExc =>
         /\ Done(r)
         /\ resp[r].status >= 400
         /\ resp[r].body = NoBuffer
    /\ raised[r].stage = "fetch" => calls[r] = NoCalls
    /\ raised[r].stage = "render" => calls[r].zip = 0

C6_Witness ==
  \E r \in Requests :
    /\ Done(r)
    /\ raised[r] = EngineError
    /\ calls[r].raster >= 2

\* C7: an empty page sequence reaching the packaging step ends the request
\* with an error; no request completes with a ZIP archive of zero entries.
C7_NoEmptyArchive ==
  \A r \in Requests :
    Done(r) =>
      /\ resp[r].status = 200 => Len(resp[r].body.entries) >= 1
      /\ (served[r].doc.pages = 0 /\ calls[r].open = 1) => resp[r].status >= 400

C7_Witness ==
  \E r \in Requests :
    /\ Done(r)
    /\ raised[r] = NoImagesError
    /\ served[r].doc.pages = 0

\* C8: packaging N >= 1 rendered pages gives a ZIP of exactly N entries,
\* named page_1.png ... page_N.png in ascending order, entry page_k.png
\* holding the image bytes of rendered page k, in a stream positioned at its
\* start.
C8_ArchiveMatchesPages ==
  [][\A r \in Requests :
       (pc[r] = "package" /\ pc'[r] = "done" /\ Len(image_bytes_list[r]) >= 1) =>
         LET list == image_bytes_list[r]
             zip  == resp'[r].body
         IN  /\ resp'[r].status = 200
             /\ Len(zip.entries) = Len(list)
             /\ zip.pos = 0
             /\ \A k \in DOMAIN list :
                  /\ list[k][1] = k
                  /\ NamesPage(zip.entries[k].name, k)
                  /\ Inflate(zip.entries[k].data) = list[k][2]]_vars

C8_Witness ==
  \E r \in Requests :
    /\ Done(r)
    /\ resp[r].status = 200
    /\ Len(resp[r].body.entries) = 11
    /\ resp[r].body.pos = 0

\* a response that arrived and was rejected in the fetch stage
Rejected(e) == e.type = "HTTPException" /\ e.stage = "fetch"
Outcome(r) == << resp[r].status, resp[r].detail >>

\* C9: a transport-level fault during the fetch reaches the caller as its own
\* outcome with a 5xx status, an outcome no rejected response produces.
C9_TransportIsOwn5xx ==
  \A r \in Requests :
    (Done(r) /\ raised[r].type \in TransportFaults) =>
      /\ resp[r].status \in 500..599
      /\ \A q \in Requests :
           (Done(q) /\ Rejected(raised[q])) => Outcome(q) # Outcome(r)

\* the next step of a request that waits for network I/O
FetchStep(r) ==
  GetFault(r) \/ GetResponse(r) \/ ReadFault(r) \/ ReadBody(r, Bodies)

\* C10: while one request renders its pages, another request that waits for
\* network I/O can still take its next fetch step.
C10_RenderOffTheLoop ==
  \A a \in Requests : \A b \in Requests \ {a} :
    (pc[a] = "render" /\ page_num[a] >= 1 /\ pc[b] \in {"get", "read"}) =>
      ENABLED FetchStep(b)

=============================================================================
